---- MODULE Spec2Model ----
(***************************************************************************)
(* SongSeeker: the web app's Plex lookup and scan handling (app.js), the   *)
(* PlayerManager / PlexPlayer pair (player-manager.js, plex-player.js),    *)
(* the mapping generator (tools/generate-plex-mapping.js) and the          *)
(* container entrypoint.                                                   *)
(*                                                                         *)
(* Strings are sequences of tokens.  A decimal digit is a token of its     *)
(* own ("0" .. "9"); every other token stands for a run of characters that *)
(* the code never looks inside ("plex:", "/", "de", ...).                  *)
(***************************************************************************)
EXTENDS Integers, Sequences, FiniteSets, TLC

VARIABLES
    \* ---- web app (app.js) ----
    plexConfig,         \* { serverUrl, token } loaded from plex-config.json
    plexMappingCache,   \* loaded mappings, in insertion order: <<[lang, mapping]>>
    loadPc,             \* position of loadPlexSettings
    availableLangs,     \* loadPlexMappings: mapping ids taken from the manifest
    loadIdx,            \* loadPlexMappings: index of the next mapping to fetch
    manifestResult,     \* how the fetch of /plex-manifest.json ended
    requested,          \* every URL handed to fetch(), in order
    ui,                 \* the DOM fields the handlers write
    lastScan,           \* the last run of handleScannedLink
    \* ---- PlayerManager / PlexPlayer / YouTube player ----
    pm,                 \* the PlayerManager singleton
    plex,               \* the PlexPlayer object (its audio element included)
    youtube,            \* the YouTube IFrame player
    calls,              \* every method call PlayerManager made on a player
    delivered,          \* state changes handed to stateChangeCallback
    timeouts,           \* the timeouts of window.setTimeout and their callbacks
    \* ---- lookupPlexTrack / lookupPlexTrackByRatingKey as functions ----
    lkIn, lkOut,
    \* ---- the times playAtRandomStartTime computes ----
    rp,
    \* ---- searchPlex (generate-plex-mapping.js) ----
    sp,
    \* ---- main of generate-plex-mapping.js ----
    gen,
    \* ---- container entrypoint ----
    plexDefaults,       \* /opt/plex-defaults: file name -> content
    plexData,           \* /plex-data: file name -> content
    entryPc

appVars    == <<plexConfig, plexMappingCache, loadPc, availableLangs, loadIdx,
                manifestResult, requested, ui, lastScan>>
playerVars == <<pm, plex, youtube, calls, delivered, timeouts>>
lookupVars == <<lkIn, lkOut, rp>>
toolVars   == <<sp, gen>>
entryVars  == <<plexDefaults, plexData, entryPc>>
vars == <<appVars, playerVars, lookupVars, toolVars, entryVars>>

----------------------------------------------------------------------------
(* Bounds of the model *)

\* media events queued for the audio element and not yet dispatched
MaxEvents == 3

\* card ids and rating keys use the digits 0..MaxDigit
MaxDigit == 1
\* card ids have at most MaxIdLen digits
MaxIdLen == 3

(* JavaScript values *)
Null == [null |-> TRUE]
NaN  == 0 - 1

DigitChars == <<"0", "1", "2", "3", "4", "5", "6", "7", "8", "9">>
IsDigit(c) == \E i \in DOMAIN DigitChars : DigitChars[i] = c
DigitVal(c) == (CHOOSE i \in DOMAIN DigitChars : DigitChars[i] = c) - 1
Digits == {DigitChars[i + 1] : i \in 0..MaxDigit}

Range(s) == {s[i] : i \in DOMAIN s}

\* every sequence over S with 1..n elements
RECURSIVE SeqsUpTo(_, _)
SeqsUpTo(S, n) ==
    IF n = 0 THEN {}
    ELSE LET shorter == SeqsUpTo(S, n - 1)
         IN  {<<x>> : x \in S} \cup shorter \cup {Append(s, x) : s \in shorter, x \in S}

DigitStrings == SeqsUpTo(Digits, MaxIdLen)

----------------------------------------------------------------------------
(* parseInt(s, 10) and String(n) *)

\* the longest prefix of s made of decimal digits
RECURSIVE DigitPrefix(_)
DigitPrefix(s) ==
    IF s = <<>> \/ ~IsDigit(Head(s)) THEN <<>>
    ELSE <<Head(s)>> \o DigitPrefix(Tail(s))

RECURSIVE DigitsValue(_)
DigitsValue(s) ==
    IF s = <<>> THEN 0
    ELSE DigitsValue(SubSeq(s, 1, Len(s) - 1)) * 10 + DigitVal(s[Len(s)])

parseInt(s) ==
    IF DigitPrefix(s) = <<>> THEN NaN ELSE DigitsValue(DigitPrefix(s))

RECURSIVE NumberToString(_)
NumberToString(n) ==
    IF n = NaN THEN <<"NaN">>
    ELSE IF n < 10 THEN <<DigitChars[n + 1]>>
    ELSE NumberToString(n \div 10) \o <<DigitChars[(n % 10) + 1]>>

----------------------------------------------------------------------------
(* Mappings: plex-mapping-{lang}.json, an object key -> track | null.       *)
(* A mapping is the sequence of its entries in Object.keys order.           *)

TrackA == [ratingKey |-> <<"1">>, partKey |-> <<"/library/parts/a">>,
           alternativeKeys |-> {}, title |-> <<"A">>]
TrackB == [ratingKey |-> <<"1", "0">>, partKey |-> <<>>,
           alternativeKeys |-> {<<"1">>, <<"1", "1">>}, title |-> <<"B">>]
TrackC == [ratingKey |-> <<"1", "1">>, partKey |-> <<"/library/parts/c">>,
           alternativeKeys |-> {}, title |-> <<"C">>]
Tracks == {TrackA, TrackB, TrackC}

MappingKeys(mapping) == {mapping[i].key : i \in DOMAIN mapping}

\* mapping[key]; undefined and null are both Null here (every use is a
\* truthiness test or "|| null")
MappingGet(mapping, key) ==
    IF \E i \in DOMAIN mapping : mapping[i].key = key
    THEN mapping[CHOOSE i \in DOMAIN mapping : mapping[i].key = key].value
    ELSE Null

CacheLangs(cache) == {cache[i].lang : i \in DOMAIN cache}

\* plexMappingCache[lang] || {}
getPlexMapping(cache, lang) ==
    IF lang \in CacheLangs(cache)
    THEN cache[CHOOSE i \in DOMAIN cache : cache[i].lang = lang].mapping
    ELSE <<>>

\* a lookup that forgets to normalise the card id
lookupPlexTrack_raw(cache, cardId, lang) ==
    MappingGet(getPlexMapping(cache, lang), cardId)

lookupPlexTrack(cache, cardId, lang) ==
    LET mapping      == getPlexMapping(cache, lang)
        normalizedId == NumberToString(parseInt(cardId))
    IN  MappingGet(mapping, normalizedId)

\* first index of s, from 1, whose element satisfies P; 0 when there is none
FirstIndex(s, P(_)) ==
    IF \E i \in DOMAIN s : P(s[i])
    THEN CHOOSE i \in DOMAIN s : P(s[i]) /\ \A j \in 1..(i - 1) : ~P(s[j])
    ELSE 0

\* the three passes over one mapping, in the order of the code
LookupInMapping(mapping, ratingKey) ==
    LET direct == MappingGet(mapping, ratingKey)
        ByKey(e) == e.value # Null /\ e.value.ratingKey = ratingKey
        ByAlt(e) == e.value # Null /\ ratingKey \in e.value.alternativeKeys
        i == FirstIndex(mapping, ByKey)
        j == FirstIndex(mapping, ByAlt)
    IN  IF direct # Null /\ direct.ratingKey = ratingKey THEN direct
        ELSE IF i # 0 THEN mapping[i].value
        ELSE IF j # 0 THEN mapping[j].value
        ELSE Null

lookupPlexTrackByRatingKey(cache, ratingKey) ==
    LET Hit(c) == LookupInMapping(c.mapping, ratingKey) # Null
        i == FirstIndex(cache, Hit)
    IN  IF i = 0 THEN Null
        ELSE [track |-> LookupInMapping(cache[i].mapping, ratingKey),
              game  |-> cache[i].lang]

----------------------------------------------------------------------------
(* PlexPlayer (plex-player.js): the object and its audio element            *)

PlayerState == [UNSTARTED |-> 0 - 1, ENDED |-> 0, PLAYING |-> 1, PAUSED |-> 2,
                BUFFERING |-> 3, CUED |-> 5]

\* the methods class PlexPlayer defines
PlexPlayerMethods ==
    {"configure", "isConfigured", "cueTrack", "playSong", "pauseSong", "stopSong",
     "seekTo", "getCurrentTime", "getDuration", "setVolume", "unMute", "mute",
     "getSongData", "onStateChange", "setPlaybackTimer", "clearPlaybackTimer",
     "getPlayerState"}

\* serverUrl.replace(/\/$/, '')
StripTrailingSlash(url) ==
    IF url # <<>> /\ url[Len(url)] = "/" THEN SubSeq(url, 1, Len(url) - 1) ELSE url

\* new PlexPlayer(): constructor and _initAudioElement
NewPlexPlayer ==
    [serverUrl |-> <<>>, token |-> <<>>,   \* null, as falsy as ''
     currentTrack |-> Null,
     stateChangeCallback |-> FALSE,
     playbackTimer |-> 0,   \* null, or the id of a timeout

     src |-> <<>>,          \* audioElement.src
     paused |-> TRUE,       \* audioElement.paused
     loading |-> FALSE,     \* the element is fetching the resource of src
     fetching |-> FALSE,    \* _fetchTrackDetails is awaiting its response
     events |-> <<>>]       \* media events queued for the element's listeners

PlexConfigure(p, serverUrl, token) ==
    [p EXCEPT !.serverUrl = StripTrailingSlash(serverUrl), !.token = token]

\* !!(this.serverUrl && this.token)
PlexIsConfigured(p) == p.serverUrl # <<>> /\ p.token # <<>>

\* `${this.serverUrl}${partKey}?X-Plex-Token=${this.token}`
BuildStreamUrl(serverUrl, partKey, token) ==
    serverUrl \o partKey \o <<"?X-Plex-Token=">> \o token

\* audioElement.src = url; audioElement.load(): the element is reset to paused
\* and the load is started
AudioLoad(p, url) ==
    [p EXCEPT !.src = url, !.paused = TRUE, !.loading = TRUE, !.events = <<>>]

\* cueTrack up to its first await (or its return)
PlexCueTrack(p, trackInfo) ==
    IF ~PlexIsConfigured(p) THEN p
    ELSE LET q == [p EXCEPT !.currentTrack = trackInfo]
         IN  IF trackInfo.partKey # <<>>
             THEN AudioLoad(q, BuildStreamUrl(q.serverUrl, trackInfo.partKey, q.token))
             ELSE [q EXCEPT !.fetching = TRUE]

\* cueTrack after _fetchTrackDetails returned details (Null: no part found,
\* or the request failed)
PlexCueTrackResume(p, details) ==
    LET q == [p EXCEPT !.fetching = FALSE]
    IN  IF details # Null /\ details.partKey # <<>>
        THEN AudioLoad([q EXCEPT !.currentTrack.partKey = details.partKey],
                       BuildStreamUrl(q.serverUrl, details.partKey, q.token))
        ELSE q

\* audioElement.pause(): a playing element is paused and fires 'pause'
AudioPause(p) ==
    IF p.paused THEN p
    ELSE [p EXCEPT !.paused = TRUE, !.events = Append(@, "pause")]

\* audioElement.play() on an element with a source
AudioPlay(p) ==
    IF p.paused THEN [p EXCEPT !.paused = FALSE, !.events = Append(@, "play")]
    ELSE p

\* the effect of a method PlexPlayer defines and PlayerManager calls
PlexApply(p, method) ==
    CASE method = "playSong"  -> IF p.src # <<>> THEN AudioPlay(p) ELSE p
      [] method = "pauseSong" -> [AudioPause(p) EXCEPT !.playbackTimer = 0]
      [] OTHER -> p   \* seekTo, setVolume, unMute and the getters: no state kept here

NoState == PlayerState.UNSTARTED - 1

\* the state an audio event makes its listener report; NoState: none
ListenerState(p, event) ==
    CASE event = "play"           -> PlayerState.PLAYING
      [] event = "pause"          -> PlayerState.PAUSED
      [] event = "ended"          -> PlayerState.ENDED
      [] event = "waiting"        -> PlayerState.BUFFERING
      [] event = "canplay"        -> IF p.paused THEN PlayerState.CUED ELSE NoState
      [] event = "loadedmetadata" -> PlayerState.CUED
      [] event = "error"          -> PlayerState.ENDED

----------------------------------------------------------------------------
(* PlayerManager (player-manager.js).  Its methods are operators on the     *)
(* record w = [pm, plex, youtube, calls, threw]: the manager, the two       *)
(* players, the calls made on them and whether an exception is propagating. *)

NewPlayerManager ==
    [youtubePlayer |-> FALSE,        \* null
     plexPlayer |-> FALSE,           \* null
     activePlayerType |-> "youtube",
     stateChangeCallback |-> FALSE,  \* null
     playbackTimer |-> 0]            \* null, or the id of a timeout

\* the last PlayerManager call: its name and argument, the active type and the
\* timer field it found, the calls it made on the players, whether it threw
NoCalls == [op |-> "none", arg |-> "", active |-> "youtube", timerWas |-> 0,
            made |-> <<>>, threw |-> FALSE]

\* the YouTube IFrame player, as far as PlayerManager drives it
YouTubeApply(y, method) ==
    CASE method = "playVideo"    -> [y EXCEPT !.playing = TRUE]
      [] method = "pauseVideo"   -> [y EXCEPT !.playing = FALSE]
      [] method = "cueVideoById" -> [y EXCEPT !.playing = FALSE, !.cued = TRUE]
      [] OTHER -> y

\* receiver.method(...): a method the receiver does not have is a TypeError;
\* a YouTube player that is not ready throws as well
Call(w, receiver, method) ==
    LET ok == IF receiver = "plex" THEN method \in PlexPlayerMethods
              ELSE w.youtube.ready
        logged == [w EXCEPT !.calls.made =
                       Append(@, [receiver |-> receiver, method |-> method, threw |-> ~ok])]
    IN  IF w.threw THEN w
        ELSE IF ~ok THEN [logged EXCEPT !.threw = TRUE]
        ELSE IF receiver = "plex"
             THEN [logged EXCEPT !.plex = PlexApply(@, method)]
             ELSE [logged EXCEPT !.youtube = YouTubeApply(@, method)]

\* a getActivePlayer that answers with the other player
getActivePlayer_other(pmgr) ==
    IF pmgr.activePlayerType = "plex"
    THEN (IF pmgr.youtubePlayer THEN "youtube" ELSE "null")
    ELSE (IF pmgr.plexPlayer THEN "plex" ELSE "null")

\* "plex", "youtube" or "null"
getActivePlayer(pmgr) ==
    IF pmgr.activePlayerType = "plex"
    THEN (IF pmgr.plexPlayer THEN "plex" ELSE "null")
    ELSE (IF pmgr.youtubePlayer THEN "youtube" ELSE "null")

\* clearTimeout(id): a pending timeout is cancelled, any other id is ignored
ClearTimeout(t, id) ==
    [t EXCEPT !.pending = {x \in @ : x.id # id},
              !.cancelled = @ \cup {x.id : x \in {y \in t.pending : y.id = id}}]

\* setTimeout(callback, ms): the id of the new timeout is t.last + 1
SetTimeout(t, owner) ==
    [t EXCEPT !.pending = @ \cup {[id |-> t.last + 1, owner |-> owner]},
              !.last = @ + 1]

clearPlaybackTimer(w) ==
    IF w.threw \/ w.pm.playbackTimer = 0 THEN w
    ELSE [w EXCEPT !.timeouts = ClearTimeout(@, w.pm.playbackTimer),
                   !.pm.playbackTimer = 0]

\* const player = this.getActivePlayer(); if (player) player.method(...)
CallActive(w, method) ==
    LET player == getActivePlayer(w.pm)
    IN  IF player = "null" THEN w ELSE Call(w, player, method)

PM_initPlexPlayer(w, serverUrl, token) ==
    LET p == IF w.pm.plexPlayer THEN w.plex ELSE NewPlexPlayer
    IN  [w EXCEPT !.pm.plexPlayer = TRUE,
                  !.plex = [PlexConfigure(p, serverUrl, token)
                                EXCEPT !.stateChangeCallback = TRUE]]

PM_stop(w) ==
    LET w1 == IF w.pm.youtubePlayer
              THEN [Call(w, "youtube", "pauseVideo") EXCEPT !.threw = FALSE]  \* try/catch
              ELSE w
        w2 == IF w1.pm.plexPlayer THEN Call(w1, "plex", "pauseVideo") ELSE w1
    IN  clearPlaybackTimer(w2)

PM_setActivePlayerType(w, type) ==
    LET w1 == IF w.pm.activePlayerType # type THEN PM_stop(w) ELSE w
    IN  IF w1.threw THEN w1 ELSE [w1 EXCEPT !.pm.activePlayerType = type]

\* cue up to the first await inside cueTrack
PM_cue(w, options) ==
    LET player == getActivePlayer(w.pm)
    IN  IF player = "null" THEN w
        ELSE IF w.pm.activePlayerType = "plex"
        THEN [w EXCEPT !.plex = PlexCueTrack(@, options.trackInfo),
                       !.calls.made = Append(@, [receiver |-> "plex", method |-> "cueTrack",
                                                 threw |-> FALSE])]
        ELSE Call(w, player, "cueVideoById")

PM_play(w)  == CallActive(w, "playVideo")
PM_pause(w) == clearPlaybackTimer(CallActive(w, "pauseVideo"))
PM_seekTo(w) == CallActive(w, "seekTo")
PM_getCurrentTime(w) == CallActive(w, "getCurrentTime")
PM_getDuration(w) == CallActive(w, "getDuration")
PM_setVolume(w) == CallActive(w, "setVolume")
PM_unMute(w) == CallActive(w, "unMute")
PM_getVideoData(w) == CallActive(w, "getVideoData")

\* a setPlaybackTimer that does not cancel the timer it replaces
PM_setPlaybackTimer_keep(w) ==
    IF w.threw THEN w
    ELSE [w EXCEPT !.timeouts = SetTimeout(@, "pm"),
                   !.pm.playbackTimer = w.timeouts.last + 1]

\* setPlaybackTimer(durationMs, onStop)
PM_setPlaybackTimer(w) ==
    LET c == clearPlaybackTimer(w)
    IN  IF w.threw THEN w
        ELSE [c EXCEPT !.timeouts = SetTimeout(@, "pm"),
                       !.pm.playbackTimer = c.timeouts.last + 1]

\* a timeout callback that pauses and forgets onStop
PM_playbackTimerCallback_silent(w, id) == PM_pause(w)

\* the callback of the timeout setPlaybackTimer set: this.pause(), then onStop()
PM_playbackTimerCallback(w, id) ==
    LET paused == PM_pause(w)
    IN  IF paused.threw THEN paused
        ELSE [paused EXCEPT !.timeouts.onStops = Append(@, id)]

\* playAtRandomStartTime: getDuration, seekTo, play, setPlaybackTimer
PM_playAtRandomStartTime(w) ==
    IF getActivePlayer(w.pm) = "null" THEN w
    ELSE PM_setPlaybackTimer(PM_play(PM_seekTo(PM_getDuration(w))))

\* PlexPlayer.clearPlaybackTimer
PlexClearPlaybackTimer(w) ==
    IF w.plex.playbackTimer = 0 THEN w
    ELSE [w EXCEPT !.timeouts = ClearTimeout(@, w.plex.playbackTimer),
                   !.plex.playbackTimer = 0]

\* PlexPlayer.setPlaybackTimer(duration)
PlexSetPlaybackTimer(w) ==
    LET c == PlexClearPlaybackTimer(w)
    IN  [c EXCEPT !.timeouts = SetTimeout(@, "plex"),
                  !.plex.playbackTimer = c.timeouts.last + 1]

\* PlexPlayer.pauseSong, the callback of the Plex player's timeout
PlexPauseSong(w) == PlexClearPlaybackTimer([w EXCEPT !.plex = AudioPause(@)])

\* the playback commands that go to the active player
Commands ==
    {"play", "pause", "seekTo", "setVolume", "unMute", "getCurrentTime",
     "getDuration", "getVideoData"}

PM_command(w, cmd) ==
    CASE cmd = "play"           -> PM_play(w)
      [] cmd = "pause"          -> PM_pause(w)
      [] cmd = "seekTo"         -> PM_seekTo(w)
      [] cmd = "setVolume"      -> PM_setVolume(w)
      [] cmd = "unMute"         -> PM_unMute(w)
      [] cmd = "getCurrentTime" -> PM_getCurrentTime(w)
      [] cmd = "getDuration"    -> PM_getDuration(w)
      [] cmd = "getVideoData"   -> PM_getVideoData(w)

\* the record a PlayerManager method starts from
World(op) ==
    [pm |-> pm, plex |-> plex, youtube |-> youtube, timeouts |-> timeouts,
     calls |-> [op |-> op, arg |-> "", active |-> pm.activePlayerType,
                timerWas |-> pm.playbackTimer, made |-> <<>>, threw |-> FALSE],
     threw |-> FALSE]

\* the players' variables after a PlayerManager method
SetWorld(w) ==
    /\ pm' = w.pm
    /\ plex' = w.plex
    /\ youtube' = w.youtube
    /\ timeouts' = w.timeouts
    /\ calls' = [w.calls EXCEPT !.threw = w.threw]

----------------------------------------------------------------------------
(* The web app (app.js): scanned links                                      *)

IsScheme(t) == t \in {"http://", "https://"}
DropScheme(text) == IF text # <<>> /\ IsScheme(Head(text)) THEN Tail(text) ELSE text
AllDigits(s) == s # <<>> /\ \A i \in DOMAIN s : IsDigit(s[i])

\* /^plex:\d+$/
isPlexRatingKey(input) ==
    Len(input) >= 2 /\ Head(input) = "plex:" /\ AllDigits(Tail(input))

parsePlexRatingKey(input) == IF isPlexRatingKey(input) THEN Tail(input) ELSE Null

\* /^(?:http:\/\/|https:\/\/)?(www\.hitstergame|app\.hitsternordics)\.com\/.+/
isHitsterLink(url) ==
    LET u == DropScheme(url)
    IN  /\ Len(u) >= 3
        /\ u[1] \in {"www.hitstergame", "app.hitsternordics"}
        /\ u[2] = ".com/"

\* the index of the "/" that splits {lang}/{id}: the one followed by digits
\* only, up to the end; 0 when there is none
LangIdSplit(rest) ==
    IF \E i \in 2..(Len(rest) - 1) :
           rest[i] = "/" /\ AllDigits(SubSeq(rest, i + 1, Len(rest)))
    THEN CHOOSE i \in 2..(Len(rest) - 1) :
           rest[i] = "/" /\ AllDigits(SubSeq(rest, i + 1, Len(rest)))
    ELSE 0

\* match[1].replace(/\//g, "-")
SlashesToDashes(s) == [i \in DOMAIN s |-> IF s[i] = "/" THEN "-" ELSE s[i]]

parseHitsterUrl(url) ==
    LET u    == DropScheme(url)
        rest == SubSeq(u, 3, Len(u))
        k    == LangIdSplit(rest)
    IN  IF Len(u) >= 3 /\ u[1] = "www.hitstergame" /\ u[2] = ".com/" /\ k # 0
        THEN [lang |-> SlashesToDashes(SubSeq(rest, 1, k - 1)),
              id   |-> SubSeq(rest, k + 1, Len(rest))]
        ELSE IF /\ Len(u) >= 4 /\ u[1] = "app.hitsternordics" /\ u[2] = ".com/"
                /\ u[3] = "resources/songs/" /\ AllDigits(SubSeq(u, 4, Len(u)))
        THEN [lang |-> <<"nordics">>, id |-> SubSeq(u, 4, Len(u))]
        ELSE Null

\* Object.keys(mapping).length > 0
hasPlexMapping(cache, lang) == getPlexMapping(cache, lang) # <<>>

CardNotAvailable(id) == <<"Card #">> \o NumberToString(parseInt(id)) \o <<" not available">>

InitialUi ==
    [songTitle |-> <<>>, songTitleColor |-> "", songRatingKey |-> <<>>,
     startstopLabel |-> "Play", startstopDisabled |-> TRUE,
     plexMappingStatus |-> <<>>,
     ios |-> FALSE]   \* what isIOS() answers in this browser

\* the track a scanned text resolves to; Null when it resolves to none
ResolveTrack(config, cache, decodedText) ==
    LET hitsterData == parseHitsterUrl(decodedText)
        result == lookupPlexTrackByRatingKey(cache, parsePlexRatingKey(decodedText))
    IN  IF isPlexRatingKey(decodedText)
        THEN IF config.serverUrl = <<>> \/ config.token = <<>> THEN Null
             ELSE IF result # Null THEN result.track ELSE Null
        ELSE IF isHitsterLink(decodedText) /\ hitsterData # Null
        THEN IF config.serverUrl = <<>> \/ config.token = <<>> THEN Null
             ELSE IF ~hasPlexMapping(cache, hitsterData.lang) THEN Null
             ELSE lookupPlexTrack(cache, hitsterData.id, hitsterData.lang)
        ELSE Null

\* hitsterData as the second half of handleScannedLink sees it
ResolveHitsterData(decodedText) ==
    IF ~isPlexRatingKey(decodedText) /\ isHitsterLink(decodedText)
    THEN parseHitsterUrl(decodedText) ELSE Null

\* handleScannedLink(decodedText), from the state the variables are in
handleScannedLink(decodedText) ==
    LET w0 == PM_stop(World("handleScannedLink"))
        plexTrackInfo == ResolveTrack(plexConfig, plexMappingCache, decodedText)
        hitsterData == ResolveHitsterData(decodedText)
        ui1 == [ui EXCEPT !.startstopLabel = "Play"]
        w1 == PM_initPlexPlayer(w0, plexConfig.serverUrl, plexConfig.token)
        w2 == PM_cue(w1, [trackInfo |-> plexTrackInfo])
    IN  IF w0.threw
        THEN \* playerManager.stop() threw: the promise is rejected here
             /\ SetWorld(w0)
             /\ ui' = ui
             /\ lastScan' = [text |-> decodedText, returned |-> FALSE,
                             resolves |-> plexTrackInfo]
        ELSE /\ lastScan' = [text |-> decodedText, returned |-> TRUE,
                             resolves |-> plexTrackInfo]
             /\ IF plexTrackInfo # Null
                THEN /\ SetWorld(w2)
                     /\ ui' = [ui1 EXCEPT !.songRatingKey = plexTrackInfo.ratingKey,
                                          !.songTitle = plexTrackInfo.title,
                                          !.songTitleColor = ""]
                ELSE /\ SetWorld(w0)
                     /\ ui' = IF hitsterData # Null
                              THEN [ui1 EXCEPT !.songRatingKey = <<>>,
                                               !.songTitle = CardNotAvailable(hitsterData.id),
                                               !.songTitleColor = "#cc0000",
                                               !.startstopDisabled = TRUE]
                              ELSE ui1

----------------------------------------------------------------------------
(* The web app (app.js): loadPlexSettings = loadPlexConfig, loadPlexMappings *)

Url == <<"http://plex:32400">>
\* what /plex-config.json may hold
Configs ==
    {[serverUrl |-> Url, token |-> <<"tok">>],
     [serverUrl |-> Url \o <<"/">>, token |-> <<"tok">>],
     [serverUrl |-> Url, token |-> <<>>],
     [serverUrl |-> <<>>, token |-> <<"tok">>]}

De     == <<"de">>
En     == <<"en">>
Custom == <<"custom">>

\* the games of /plex-manifest.json, as the list of their mapping ids
Manifests == {<<>>, <<De>>, <<De, Custom>>, <<Custom, De>>, <<En, De>>}

\* the mapping files on the server
ServerMapping(lang) ==
    CASE lang = De     -> <<[key |-> <<"1">>, value |-> TrackA],
                            [key |-> <<"1", "0">>, value |-> Null],
                            [key |-> <<"1", "1">>, value |-> TrackB]>>
      [] lang = Custom -> <<[key |-> <<"1", "1">>, value |-> TrackC]>>
      [] OTHER         -> <<>>

FetchOutcomes == {"ok", "notOk", "rejected", "badJson"}

MappingUrl(lang) == <<"/plex-mapping-">> \o lang \o <<".json">>

\* plexMappingCache[lang] = mapping
CachePut(cache, lang, mapping) ==
    IF lang \in CacheLangs(cache)
    THEN [i \in DOMAIN cache |->
             IF cache[i].lang = lang THEN [lang |-> lang, mapping |-> mapping] ELSE cache[i]]
    ELSE Append(cache, [lang |-> lang, mapping |-> mapping])

\* updatePlexMappingStatus: the loaded languages, or none
updatePlexMappingStatus(cache) == CacheLangs(cache)

loadPlexConfig ==
    /\ loadPc = "config"
    /\ requested' = Append(requested, <<"/plex-config.json">>)
    /\ \E outcome \in FetchOutcomes, config \in Configs :
          plexConfig' = IF outcome = "ok" THEN config ELSE plexConfig
    /\ loadPc' = "manifest"
    /\ UNCHANGED <<plexMappingCache, availableLangs, loadIdx, manifestResult, ui, lastScan>>
    /\ UNCHANGED <<playerVars, lookupVars, toolVars, entryVars>>

\* a loader that falls back to a built-in list when there is no manifest
LangsFromManifest_fallback(outcome, games) ==
    IF outcome = "ok" THEN games ELSE <<De, En>>

\* availableLangs after the manifest request
LangsFromManifest(outcome, games) ==
    IF outcome = "ok" THEN games ELSE <<>>

\* loadPlexMappings up to the loop over availableLangs
loadManifest ==
    /\ loadPc = "manifest"
    /\ requested' = Append(requested, <<"/plex-manifest.json">>)
    /\ \E outcome \in FetchOutcomes, games \in Manifests :
          /\ manifestResult' = [outcome |-> outcome,
                                games |-> IF outcome = "ok" THEN games ELSE <<>>]
          /\ availableLangs' = LangsFromManifest(outcome, games)
    /\ loadIdx' = 1
    /\ IF availableLangs' = <<>>
       THEN /\ loadPc' = "done"
            /\ ui' = [ui EXCEPT !.plexMappingStatus = updatePlexMappingStatus(plexMappingCache)]
       ELSE /\ loadPc' = "mappings"
            /\ ui' = ui
    /\ UNCHANGED <<plexConfig, plexMappingCache, lastScan>>
    /\ UNCHANGED <<playerVars, lookupVars, toolVars, entryVars>>

\* one turn of the loop of loadPlexMappings
loadMapping ==
    /\ loadPc = "mappings"
    /\ LET lang == availableLangs[loadIdx]
       IN  /\ requested' = Append(requested, MappingUrl(lang))
           /\ \E outcome \in FetchOutcomes :
                 plexMappingCache' = IF outcome = "ok"
                                     THEN CachePut(plexMappingCache, lang, ServerMapping(lang))
                                     ELSE plexMappingCache
    /\ loadIdx' = loadIdx + 1
    /\ IF loadIdx = Len(availableLangs)
       THEN /\ loadPc' = "done"
            /\ ui' = [ui EXCEPT !.plexMappingStatus = updatePlexMappingStatus(plexMappingCache')]
       ELSE /\ loadPc' = "mappings"
            /\ ui' = ui
    /\ UNCHANGED <<plexConfig, availableLangs, manifestResult, lastScan>>
    /\ UNCHANGED <<playerVars, lookupVars, toolVars, entryVars>>

\* texts a QR code may hold
ScanIds == {<<"1">>, <<"0", "1">>, <<"1", "0">>, <<"1", "1">>, <<"0">>}
ScanTexts ==
    {<<"plex:">> \o k : k \in ScanIds}
    \cup {<<"https://", "www.hitstergame", ".com/">> \o l \o <<"/">> \o id :
             l \in {De, En}, id \in ScanIds}
    \cup {<<"www.hitstergame", ".com/", "de", "/", "aaaa0007", "/", "1">>,
          <<"https://", "app.hitsternordics", ".com/", "resources/songs/", "1">>,
          <<"www.hitstergame", ".com/", "de">>,
          <<"https://", "example", ".com/", "x">>,
          <<"plex:", "x">>}

\* the QR scanner (or the debug button) hands a text to handleScannedLink
scan ==
    /\ \E decodedText \in ScanTexts : handleScannedLink(decodedText)
    /\ UNCHANGED delivered
    /\ UNCHANGED <<plexConfig, plexMappingCache, loadPc, availableLangs, loadIdx,
                   manifestResult, requested>>
    /\ UNCHANGED <<lookupVars, toolVars, entryVars>>

----------------------------------------------------------------------------
(* Values of the variables a specification does not use *)

NoScan == [text |-> <<>>, returned |-> TRUE, resolves |-> Null]
NoYouTube == [ready |-> FALSE, playing |-> FALSE, cued |-> FALSE]
\* no timeout was ever set; onStops: the ids of the timeouts whose onStop ran
NoTimeouts == [pending |-> {}, last |-> 0, cancelled |-> {}, onStops |-> <<>>]

IdleApp ==
    /\ plexConfig = [serverUrl |-> <<>>, token |-> <<>>]
    /\ plexMappingCache = <<>>
    /\ loadPc = "config"
    /\ availableLangs = <<>>
    /\ loadIdx = 1
    /\ manifestResult = [outcome |-> "none", games |-> <<>>]
    /\ requested = <<>>
    /\ ui = InitialUi
    /\ lastScan = NoScan
IdlePlayers ==
    /\ pm = NewPlayerManager
    /\ plex = NewPlexPlayer
    /\ youtube = NoYouTube
    /\ calls = NoCalls
    /\ delivered = {}
    /\ timeouts = NoTimeouts
IdleLookup == lkIn = Null /\ lkOut = Null /\ rp = Null
IdleTools  == sp = Null /\ gen = Null
IdleEntry  == plexDefaults = <<>> /\ plexData = <<>> /\ entryPc = "idle"

----------------------------------------------------------------------------
(* The web app as app.js wires it: module state after the script ran, then  *)
(* loadPlexSettings (on DOMContentLoaded) and scans, in any interleaving.   *)

\* DOMContentLoaded: playerManager.onStateChange(handlePlayerStateChange)
Init ==
    /\ IdleApp
    /\ pm = [NewPlayerManager EXCEPT !.stateChangeCallback = TRUE]
    /\ plex = NewPlexPlayer /\ youtube = NoYouTube /\ calls = NoCalls /\ delivered = {}
    /\ timeouts = NoTimeouts
    /\ IdleLookup /\ IdleTools /\ IdleEntry

Next == loadPlexConfig \/ loadManifest \/ loadMapping \/ scan

Spec == Init /\ [][Next]_vars

----------------------------------------------------------------------------
(* PlayerManager under any caller: every public method, the fetch inside    *)
(* cueTrack, and the audio element's events.                                *)

PlayerFrame == UNCHANGED <<appVars, lookupVars, toolVars, entryVars>>

\* onYouTubeIframeAPIReady: playerManager.setYouTubePlayer(player)
pmSetYouTubePlayer ==
    /\ ~pm.youtubePlayer
    /\ pm' = [pm EXCEPT !.youtubePlayer = TRUE]
    /\ calls' = [NoCalls EXCEPT !.op = "setYouTubePlayer", !.active = pm.activePlayerType]
    /\ UNCHANGED <<plex, youtube, delivered, timeouts>>
    /\ PlayerFrame

\* the IFrame player reports onReady
youtubeReady ==
    /\ pm.youtubePlayer /\ ~youtube.ready
    /\ youtube' = [youtube EXCEPT !.ready = TRUE]
    /\ UNCHANGED <<pm, plex, calls, delivered, timeouts>>
    /\ PlayerFrame

pmInitPlexPlayer ==
    /\ \E config \in Configs :
          SetWorld(PM_initPlexPlayer(World("initPlexPlayer"), config.serverUrl, config.token))
    /\ UNCHANGED delivered
    /\ PlayerFrame

pmSetActivePlayerType ==
    /\ \E type \in {"youtube", "plex"} :
          SetWorld(PM_setActivePlayerType(
                       [World("setActivePlayerType") EXCEPT !.calls.arg = type], type))
    /\ UNCHANGED delivered
    /\ PlayerFrame

pmOnStateChange ==
    /\ ~pm.stateChangeCallback
    /\ pm' = [pm EXCEPT !.stateChangeCallback = TRUE]
    /\ calls' = [NoCalls EXCEPT !.op = "onStateChange", !.active = pm.activePlayerType]
    /\ UNCHANGED <<plex, youtube, delivered, timeouts>>
    /\ PlayerFrame

pmCue ==
    /\ ~plex.fetching
    /\ \E track \in Tracks : SetWorld(PM_cue(World("cue"), [trackInfo |-> track]))
    /\ UNCHANGED delivered
    /\ PlayerFrame

pmCommand ==
    /\ \E cmd \in Commands : SetWorld(PM_command(World(cmd), cmd))
    /\ UNCHANGED delivered
    /\ PlayerFrame

pmStop ==
    /\ SetWorld(PM_stop(World("stop")))
    /\ UNCHANGED delivered
    /\ PlayerFrame

\* _fetchTrackDetails returns: a part key, or null
plexFetchDone ==
    /\ plex.fetching
    /\ \E details \in {Null, [partKey |-> <<"/library/parts/b">>]} :
          plex' = PlexCueTrackResume(plex, details)
    /\ UNCHANGED <<pm, youtube, calls, delivered, timeouts>>
    /\ PlayerFrame

\* the audio element got the resource of src, or failed to
audioLoaded ==
    /\ plex.loading
    /\ Len(plex.events) + 2 <= MaxEvents
    /\ \E ok \in BOOLEAN :
          plex' = [plex EXCEPT !.loading = FALSE,
                               !.events = IF ok THEN @ \o <<"loadedmetadata", "canplay">>
                                          ELSE Append(@, "error")]
    /\ UNCHANGED <<pm, youtube, calls, delivered, timeouts>>
    /\ PlayerFrame

\* the next queued event reaches its listener: _notifyStateChange, then the
\* forwarding closure of initPlexPlayer, then stateChangeCallback
audioEvent ==
    /\ plex.events # <<>>
    /\ LET state == ListenerState(plex, Head(plex.events))
       IN  delivered' =
               IF /\ state # NoState
                  /\ plex.stateChangeCallback
                  /\ pm.activePlayerType = "plex"
                  /\ pm.stateChangeCallback
               THEN delivered \cup {state}
               ELSE delivered
    /\ plex' = [plex EXCEPT !.events = Tail(@)]
    /\ UNCHANGED <<pm, youtube, calls, timeouts>>
    /\ PlayerFrame

PMNext ==
    \/ pmSetYouTubePlayer \/ youtubeReady \/ pmInitPlexPlayer \/ pmSetActivePlayerType
    \/ pmOnStateChange \/ pmCue \/ pmCommand \/ pmStop
    \/ plexFetchDone \/ audioLoaded \/ audioEvent

\* a PlayerManager fresh from its constructor
PMInit == IdleApp /\ IdlePlayers /\ IdleLookup /\ IdleTools /\ IdleEntry

PMSpec == PMInit /\ [][PMNext]_vars

----------------------------------------------------------------------------
(* The PlayerManager with its auto-stop timers: the calls of the manager,   *)
(* playAtRandomStartTime, the timer of the Plex player, and the timeouts    *)
(* running out.                                                             *)

\* timeouts set during one behaviour
MaxTimers == 2

pmPlayAtRandomStartTime ==
    /\ timeouts.last < MaxTimers
    /\ SetWorld(PM_playAtRandomStartTime(World("playAtRandomStartTime")))
    /\ UNCHANGED delivered
    /\ PlayerFrame

\* the timeout of PlayerManager.setPlaybackTimer runs out
playbackTimerFired ==
    /\ \E t \in timeouts.pending :
          /\ t.owner = "pm"
          /\ SetWorld(PM_playbackTimerCallback(
                 [World("playbackTimer") EXCEPT !.timeouts.pending = @ \ {t}], t.id))
    /\ UNCHANGED delivered
    /\ PlayerFrame

plexSetPlaybackTimer ==
    /\ pm.plexPlayer
    /\ timeouts.last < MaxTimers
    /\ SetWorld(PlexSetPlaybackTimer(World("plex.setPlaybackTimer")))
    /\ UNCHANGED delivered
    /\ PlayerFrame

\* the timeout of PlexPlayer.setPlaybackTimer runs out
plexPlaybackTimerFired ==
    /\ \E t \in timeouts.pending :
          /\ t.owner = "plex"
          /\ SetWorld(PlexPauseSong(
                 [World("plex.playbackTimer") EXCEPT !.timeouts.pending = @ \ {t}]))
    /\ UNCHANGED delivered
    /\ PlayerFrame

TimerNext ==
    \/ pmSetYouTubePlayer \/ youtubeReady \/ pmInitPlexPlayer \/ pmSetActivePlayerType
    \/ pmCommand \/ pmStop
    \/ pmPlayAtRandomStartTime \/ playbackTimerFired
    \/ plexSetPlaybackTimer \/ plexPlaybackTimerFired

TimerSpec == PMInit /\ [][TimerNext]_vars

----------------------------------------------------------------------------
(* One snippet at a time: while the auto-stop timer of the manager is       *)
(* pending no call is made on the manager; the browser runs the callback of *)
(* a pending timeout once its delay is over.                                *)

\* no snippet is running
Quiet == \A t \in timeouts.pending : t.owner # "pm"

snippetSetup ==
    /\ Quiet
    /\ \/ pmSetYouTubePlayer \/ youtubeReady \/ pmInitPlexPlayer
       \/ pmSetActivePlayerType \/ pmCommand \/ pmStop

snippetStart == Quiet /\ pmPlayAtRandomStartTime

SnippetNext == snippetSetup \/ snippetStart \/ playbackTimerFired

SnippetSpec == PMInit /\ [][SnippetNext]_vars /\ WF_vars(playbackTimerFired)

----------------------------------------------------------------------------
(* lookupPlexTrack and lookupPlexTrackByRatingKey as functions of their     *)
(* arguments and the mapping cache                                          *)

Absent == [absent |-> TRUE]

\* the object with keys[i]: values[i] for every i whose value is not Absent
MappingFrom(keys, values) ==
    SelectSeq([i \in DOMAIN keys |-> [key |-> keys[i], value |-> values[i]]],
              LAMBDA e : e.value # Absent)

\* mapping files over four keys; "01" is a key a file may hold, after the
\* integer-like keys in Object.keys order
CardKeys == << <<"0">>, <<"1">>, <<"1", "0">>, <<"0", "1">> >>
CardMappings ==
    {MappingFrom(CardKeys, v) : v \in [DOMAIN CardKeys -> {Absent, Null, TrackA, TrackB}]}

\* mapping files of custom games and Hitster games over two keys
RatingKeys == << <<"1">>, <<"1", "1">> >>
RatingKeyMappings ==
    {MappingFrom(RatingKeys, v) : v \in [DOMAIN RatingKeys -> {Absent, TrackA, TrackB, TrackC}]}

LookupInputs ==
    {[fn |-> "lookupPlexTrack", cardId |-> id, lang |-> l, cache |-> c] :
        id \in DigitStrings, l \in {De, En},
        c \in {<<>>} \cup {<<[lang |-> De, mapping |-> m]>> : m \in CardMappings}}
    \cup
    {[fn |-> "lookupPlexTrackByRatingKey", ratingKey |-> k, cache |-> c] :
        k \in ScanIds,
        c \in {<<[lang |-> De, mapping |-> m1], [lang |-> Custom, mapping |-> m2]>> :
                  m1 \in RatingKeyMappings, m2 \in RatingKeyMappings}}

LookupInit ==
    /\ lkIn \in LookupInputs
    /\ lkOut = Null /\ rp = Null
    /\ IdleApp /\ IdlePlayers /\ IdleTools /\ IdleEntry

LookupFrame == UNCHANGED <<lkIn, rp, appVars, playerVars, toolVars, entryVars>>

applyLookupPlexTrack ==
    /\ lkOut = Null /\ lkIn.fn = "lookupPlexTrack"
    /\ lkOut' = [value |-> lookupPlexTrack(lkIn.cache, lkIn.cardId, lkIn.lang)]
    /\ LookupFrame

applyLookupPlexTrackByRatingKey ==
    /\ lkOut = Null /\ lkIn.fn = "lookupPlexTrackByRatingKey"
    /\ lkOut' = [value |-> lookupPlexTrackByRatingKey(lkIn.cache, lkIn.ratingKey)]
    /\ LookupFrame

LookupNext == applyLookupPlexTrack \/ applyLookupPlexTrackByRatingKey

LookupSpec == LookupInit /\ [][LookupNext]_vars

----------------------------------------------------------------------------
(* The play/stop button of app.js on a PlayerManager that was told to use   *)
(* the Plex player: handlePlayerStateChange, the click handler, and the     *)
(* manager calls that load a track.  The checkboxes are read when a handler *)
(* runs; the user may have changed them in between.                         *)

\* playSongAtRandomStartTime()
playSongAtRandomStartTime(w) == PM_playAtRandomStartTime(w)

\* handlePlayerStateChange({data: state}): the manager's world and the page
\* after it (the duration shown half a second later is not kept)
handlePlayerStateChange(w, page, state, autoplay, randomplayback) ==
    CASE state = PlayerState.CUED ->
             LET enabled == [page EXCEPT !.startstopDisabled = FALSE]
             IN  IF page.ios
                 THEN [w |-> PM_play(w), ui |-> enabled]
                 ELSE IF autoplay
                 THEN [w |-> IF randomplayback THEN playSongAtRandomStartTime(w)
                             ELSE PM_play(w),
                       ui |-> [enabled EXCEPT !.startstopLabel = "Stop"]]
                 ELSE [w |-> w, ui |-> enabled]
      [] state = PlayerState.PLAYING ->
             [w |-> w, ui |-> [page EXCEPT !.startstopLabel = "Stop"]]
      [] state \in {PlayerState.PAUSED, PlayerState.ENDED} ->
             [w |-> w, ui |-> [page EXCEPT !.startstopLabel = "Play"]]
      [] OTHER -> [w |-> w, ui |-> page]

\* the click listener of #startstop-song
startstopClick(w, page, randomplayback) ==
    IF page.startstopLabel = "Play"
    THEN [w |-> IF randomplayback THEN playSongAtRandomStartTime(w) ELSE PM_play(w),
          ui |-> [page EXCEPT !.startstopLabel = "Stop"]]
    ELSE [w |-> PM_pause(w), ui |-> [page EXCEPT !.startstopLabel = "Play"]]

ButtonFrame ==
    UNCHANGED <<plexConfig, plexMappingCache, loadPc, availableLangs, loadIdx,
                manifestResult, requested, lastScan, lookupVars, toolVars, entryVars>>

\* the next queued audio event reaches its listener; a state that is
\* forwarded runs handlePlayerStateChange
stateChange ==
    /\ plex.events # <<>>
    /\ LET state == ListenerState(plex, Head(plex.events))
           forwarded == /\ state # NoState
                        /\ plex.stateChangeCallback
                        /\ pm.activePlayerType = "plex"
                        /\ pm.stateChangeCallback
           w0 == [World("handlePlayerStateChange") EXCEPT !.plex.events = Tail(@)]
       IN  IF forwarded
           THEN /\ delivered' = delivered \cup {state}
                /\ \E autoplay, randomplayback \in BOOLEAN :
                      LET r == handlePlayerStateChange(w0, ui, state, autoplay,
                                                       randomplayback)
                      IN  SetWorld(r.w) /\ ui' = r.ui
           ELSE /\ plex' = [plex EXCEPT !.events = Tail(@)]
                /\ UNCHANGED <<pm, youtube, calls, delivered, timeouts, ui>>
    /\ ButtonFrame

\* the user clicks the button; a disabled button does not dispatch clicks
click ==
    /\ ~ui.startstopDisabled
    /\ \E randomplayback \in BOOLEAN :
          LET r == startstopClick(World("click"), ui, randomplayback)
          IN  SetWorld(r.w) /\ ui' = r.ui
    /\ UNCHANGED delivered
    /\ ButtonFrame

\* DOMContentLoaded has run: the callback is registered
ButtonInit ==
    /\ plexConfig = [serverUrl |-> <<>>, token |-> <<>>]
    /\ plexMappingCache = <<>>
    /\ loadPc = "config"
    /\ availableLangs = <<>>
    /\ loadIdx = 1
    /\ manifestResult = [outcome |-> "none", games |-> <<>>]
    /\ requested = <<>>
    /\ lastScan = NoScan
    /\ \E ios \in BOOLEAN : ui = [InitialUi EXCEPT !.ios = ios]
    /\ pm = [NewPlayerManager EXCEPT !.stateChangeCallback = TRUE]
    /\ plex = NewPlexPlayer /\ youtube = NoYouTube /\ calls = NoCalls /\ delivered = {}
    /\ timeouts = NoTimeouts
    /\ IdleLookup /\ IdleTools /\ IdleEntry

ButtonNext ==
    \/ pmInitPlexPlayer \/ pmSetActivePlayerType \/ pmCue
    \/ plexFetchDone \/ audioLoaded
    \/ stateChange \/ click

ButtonSpec == ButtonInit /\ [][ButtonNext]_vars

----------------------------------------------------------------------------
(* The times of playAtRandomStartTime.  Durations are whole seconds and    *)
(* Math.random() is one of 0, 1/RandomSteps, ..; every time is kept as a    *)
(* whole number of 1/(10 * RandomSteps) seconds, so that 10 %, 90 % and     *)
(* the random offset are exact.                                             *)

\* track durations 0..MaxDuration seconds (0: no metadata yet)
MaxDuration == 8
\* playback durations 1..MaxPlayback seconds
MaxPlayback == 4
\* custom start times 0..MaxStartTime seconds
MaxStartTime == 3
\* Math.random() is k / RandomSteps for a k in 0..RandomSteps - 1
RandomSteps == 3

\* one second
Second == 10 * RandomSteps

Max(a, b) == IF a >= b THEN a ELSE b

\* Math.max(currentStartTime, videoDuration * minStartPercentage)
minStartTime(videoDuration, currentStartTime) ==
    Max(currentStartTime * Second, videoDuration * RandomSteps)

\* videoDuration * maxEndPercentage
maxEndTime(videoDuration) == videoDuration * 9 * RandomSteps

\* startTime and endTime as playAtRandomStartTime computes them, with
\* Math.random() = k / RandomSteps
RandomTimes(videoDuration, playbackDuration, currentStartTime, k) ==
    LET minStart == minStartTime(videoDuration, currentStartTime)
        maxEnd   == maxEndTime(videoDuration)
        playback == playbackDuration * Second
        endTime1   == IF playback > maxEnd THEN maxEnd ELSE playback
        startTime1 == IF playback > maxEnd THEN Max(minStart, endTime1 - playback)
                      ELSE currentStartTime * Second
        range        == maxEnd - minStart - playback
        randomOffset == (k * range) \div RandomSteps
    IN  IF startTime1 <= minStart
        THEN [startTime |-> minStart + randomOffset,
              endTime |-> minStart + randomOffset + playback]
        ELSE [startTime |-> startTime1, endTime |-> endTime1]

RandomInit ==
    /\ rp \in [videoDuration : 0..MaxDuration, playbackDuration : 1..MaxPlayback,
                currentStartTime : 0..MaxStartTime, k : 0..(RandomSteps - 1),
                done : {FALSE}, seekTo : {0}, timerMs : {0}]
    /\ lkIn = Null /\ lkOut = Null
    /\ IdleApp /\ IdlePlayers /\ IdleTools /\ IdleEntry

\* this.seekTo(startTime, true); this.play();
\* this.setPlaybackTimer((endTime - startTime) * 1000, onStop)
randomPlayback ==
    /\ ~rp.done
    /\ LET t == RandomTimes(rp.videoDuration, rp.playbackDuration,
                            rp.currentStartTime, rp.k)
       IN  rp' = [rp EXCEPT !.done = TRUE, !.seekTo = t.startTime,
                            !.timerMs = ((t.endTime - t.startTime) * 1000) \div Second]
    /\ UNCHANGED <<lkIn, lkOut, appVars, playerVars, toolVars, entryVars>>

RandomNext == randomPlayback

RandomSpec == RandomInit /\ [][RandomNext]_vars

----------------------------------------------------------------------------
(* The container entrypoint.  The repository holds two versions of the     *)
(* script; each is an action.  A file is "absent", "built" (the content    *)
(* the image was built with) or "edited" (any other content).              *)

Files == {"plex-manifest.json", "plex-mapping-de.json", "plex-mapping-en.json"}

\* for file in /opt/plex-defaults/*.json
DefaultFiles(defaults) == {f \in Files : defaults[f] # "absent"}

\* [ ! -f "/plex-data/$filename" ]
NotPresent(data, f) == data[f] = "absent"

\* cp "$file" "/plex-data/$filename"
Cp(data, defaults, copied) ==
    [f \in Files |-> IF f \in copied THEN defaults[f] ELSE data[f]]

EntryInit ==
    /\ plexDefaults \in [Files -> {"absent", "built"}]
    /\ plexData \in [Files -> {"absent", "built", "edited"}]
    /\ entryPc = "idle"
    /\ IdleApp /\ IdlePlayers /\ IdleLookup /\ IdleTools

EntryFrame == UNCHANGED <<plexDefaults, appVars, playerVars, lookupVars, toolVars>>

\* first version: copy a default only if the file is not in /plex-data/
entrypointFirst ==
    /\ entryPc = "idle"
    /\ plexData' = Cp(plexData, plexDefaults,
                      {f \in DefaultFiles(plexDefaults) : NotPresent(plexData, f)})
    /\ entryPc' = "first"
    /\ EntryFrame

\* second version: deploy every default, overwriting
entrypointSecond ==
    /\ entryPc = "idle"
    /\ plexData' = Cp(plexData, plexDefaults, DefaultFiles(plexDefaults))
    /\ entryPc' = "second"
    /\ EntryFrame

EntryNext == entrypointFirst \/ entrypointSecond

EntrySpec == EntryInit /\ [][EntryNext]_vars

----------------------------------------------------------------------------
(* searchPlex (tools/generate-plex-mapping.js).  A call runs up to its      *)
(* first await; every answer of plexRequest resumes it.  An absent string   *)
(* is <<>> (every use is `|| ''` or a copy); an absent number is Undefined, *)
(* a present one [n |-> ...].                                               *)

\* tracks in one answer of the Plex search
MaxTracks == 2
\* cards carry the years 1..MaxYear
MaxYear == 2

Undefined == [undefined |-> TRUE]
Infinity  == [infinity |-> TRUE]
Num(n)    == [n |-> n]

\* a || b on numbers
NumOr(a, b) == IF a # Undefined /\ a.n # 0 THEN a ELSE b
\* a || b on strings
StrOr(a, b) == IF a # <<>> THEN a ELSE b

LowerOf(t) ==
    CASE t = "Radio" -> "radio" [] t = "RADIO" -> "radio"
      [] t = "Queen" -> "queen" [] t = "QUEEN" -> "queen"
      [] t = "Ga"    -> "ga"    [] t = "Bowie" -> "bowie"
      [] t = "Other" -> "other" [] t = "Live"  -> "live"
      [] t = "Edit"  -> "edit"  [] t = "Various" -> "various"
      [] t = "Feat." -> "feat."
      [] OTHER -> t
toLowerCase(s) == [i \in DOMAIN s |-> LowerOf(s[i])]

\* String.prototype.includes
includes(s, t) == \E i \in 0..(Len(s) - Len(t)) : SubSeq(s, i + 1, i + Len(t)) = t

\* String.prototype.trim
RECURSIVE trim(_)
trim(s) ==
    IF s = <<>> THEN s
    ELSE IF Head(s) = " " THEN trim(Tail(s))
    ELSE IF s[Len(s)] = " " THEN trim(SubSeq(s, 1, Len(s) - 1))
    ELSE s

IsFeat(t)  == LowerOf(t) = "feat."
IsComma(t) == t = ","

\* artist.replace(/feat\..*/i, '').replace(/,.*/, '').trim()
cleanArtist(artist) ==
    LET f == FirstIndex(artist, IsFeat)
        a == IF f = 0 THEN artist ELSE SubSeq(artist, 1, f - 1)
        c == FirstIndex(a, IsComma)
        b == IF c = 0 THEN a ELSE SubSeq(a, 1, c - 1)
    IN  trim(b)

\* s.replace(/\(.*\)/g, '') for open = "(", close = ")": the greedy match
\* runs from the first open to the last close after it
RemoveEnclosed(s, open, close) ==
    LET opens  == {i \in DOMAIN s : s[i] = open}
        closes == {j \in DOMAIN s : s[j] = close}
    IN  IF opens = {} THEN s
        ELSE LET i == CHOOSE x \in opens : \A y \in opens : x <= y
                 after == {j \in closes : j > i}
             IN  IF after = {} THEN s
                 ELSE LET j == CHOOSE x \in after : \A y \in after : y <= x
                      IN  SubSeq(s, 1, i - 1) \o SubSeq(s, j + 1, Len(s))

\* title.replace(/\(.*\)/g, '').replace(/\[.*\]/g, '').trim()
cleanTitle(title) == trim(RemoveEnclosed(RemoveEnclosed(title, "(", ")"), "[", "]"))

\* [cleanTitle, `${cleanArtist} ${cleanTitle}`, cleanArtist]
searchQueries(artist, title) ==
    << cleanTitle(title),
       cleanArtist(artist) \o <<" ">> \o cleanTitle(title),
       cleanArtist(artist) >>

\* track.parentYear || track.year
trackYear(track) == NumOr(track.parentYear, track.year)
\* track.grandparentTitle || track.originalTitle
trackArtist(track) == StrOr(track.grandparentTitle, track.originalTitle)

titleMatch(track, cTitle) ==
    \/ includes(toLowerCase(track.title), toLowerCase(cTitle))
    \/ includes(toLowerCase(cTitle), toLowerCase(track.title))
artistMatch(track, cArtist) ==
    \/ includes(toLowerCase(trackArtist(track)), toLowerCase(cArtist))
    \/ includes(toLowerCase(cArtist), toLowerCase(trackArtist(track)))

\* Math.abs((trackYear || 0) - targetYear)
yearDiff(track, targetYear) ==
    LET y == NumOr(trackYear(track), Num(0)).n
    IN  IF targetYear = NaN THEN NaN
        ELSE IF y >= targetYear THEN y - targetYear ELSE targetYear - y

\* yearDiff < bestYearDiff
YearDiffLess(d, best) == d # NaN /\ (best = Infinity \/ d < best.n)

\* the object searchPlex builds from a track
MatchOf(track) ==
    [ratingKey |-> track.ratingKey, title |-> track.title,
     artist |-> trackArtist(track), year |-> trackYear(track),
     partKey |-> track.partKey]

\* the body of `for (const track of tracks)`, from the track at index k on
RECURSIVE CheckTracks(_, _, _)
CheckTracks(st, tracks, k) ==
    IF k > Len(tracks) THEN st
    ELSE LET track == tracks[k]
             d     == yearDiff(track, st.targetYear)
         IN  IF /\ titleMatch(track, st.cleanTitle)
                /\ artistMatch(track, st.cleanArtist)
                /\ YearDiffLess(d, st.bestYearDiff)
             THEN LET better == [st EXCEPT !.bestYearDiff = Num(d),
                                           !.bestMatch = MatchOf(track)]
                  IN  IF d = 0
                      THEN [better EXCEPT !.done = TRUE, !.result = better.bestMatch]
                      ELSE CheckTracks(better, tracks, k + 1)
             ELSE CheckTracks(st, tracks, k + 1)

\* a return that keeps the closest year instead of the exact one
searchPlexReturn_closest(bestMatch, bestYearDiff) == bestMatch

\* after the loop over the queries: only an exact year match is returned
searchPlexReturn(bestMatch, bestYearDiff) ==
    IF bestMatch # Null /\ bestYearDiff = Num(0) THEN bestMatch ELSE Null

\* the library the Plex server answers from
Library ==
    { [ratingKey |-> <<"1">>, title |-> <<"Radio", " ", "Ga">>,
       grandparentTitle |-> <<"Queen">>, originalTitle |-> <<>>,
       parentYear |-> Num(1), year |-> Num(2), partKey |-> <<"/library/parts/1">>],
      [ratingKey |-> <<"2">>, title |-> <<"RADIO">>,
       grandparentTitle |-> <<>>, originalTitle |-> <<"queen">>,
       parentYear |-> Undefined, year |-> Num(2), partKey |-> <<"/library/parts/2">>],
      [ratingKey |-> <<"3">>, title |-> <<"Radio">>,
       grandparentTitle |-> <<"Queen">>, originalTitle |-> <<"Bowie">>,
       parentYear |-> Undefined, year |-> Undefined, partKey |-> <<"/library/parts/3">>],
      [ratingKey |-> <<"4">>, title |-> <<"Radio">>,
       grandparentTitle |-> <<"Various">>, originalTitle |-> <<"Queen">>,
       parentYear |-> Num(1), year |-> Undefined, partKey |-> <<"/library/parts/4">>],
      [ratingKey |-> <<"5">>, title |-> <<>>,
       grandparentTitle |-> <<>>, originalTitle |-> <<>>,
       parentYear |-> Num(0), year |-> Num(1), partKey |-> <<>>] }

\* sequences of distinct tracks, 1..n long
RECURSIVE TrackLists(_)
TrackLists(n) ==
    IF n = 0 THEN {}
    ELSE LET shorter == TrackLists(n - 1)
         IN  {<<t>> : t \in Library} \cup shorter
             \cup UNION {{Append(s, t) : t \in Library \ Range(s)} : s \in shorter}

\* how plexRequest ends: it rejects, or resolves to a body without
\* MediaContainer.Metadata, or to one with tracks
Responses ==
    {[kind |-> "error", tracks |-> <<>>], [kind |-> "empty", tracks |-> <<>>]}
    \cup {[kind |-> "tracks", tracks |-> s] : s \in TrackLists(MaxTracks)}

CardArtists ==
    { <<"Queen">>, <<"Queen", " ", "Feat.", " ", "Bowie">>, <<"Bowie", ",", " ", "Queen">> }
CardTitles ==
    { <<"Radio", " ", "(", "Live", ")", " ", "[", "Edit", "]">>,
      <<"Radio", " ", "Ga", " ", "Ga">>,
      <<"(", "Live", ")">> }
\* the Year column: empty, not a number, or a year
CardYears == {<<>>, <<"x">>} \cup {NumberToString(y) : y \in 1..MaxYear}

SearchInit == sp = Null /\ gen = Null /\ IdleApp /\ IdlePlayers /\ IdleLookup /\ IdleEntry

SearchFrame == UNCHANGED <<gen, appVars, playerVars, lookupVars, entryVars>>

\* searchPlex(serverUrl, token, artist, title, expectedYear) up to the first
\* await plexRequest(...)
searchPlex ==
    /\ IF sp = Null THEN TRUE ELSE sp.done
    /\ \E artist \in CardArtists, title \in CardTitles, expectedYear \in CardYears :
          sp' = [artist |-> artist, title |-> title, expectedYear |-> expectedYear,
                 cleanArtist |-> cleanArtist(artist), cleanTitle |-> cleanTitle(title),
                 targetYear |-> parseInt(expectedYear),
                 q |-> 1, query |-> searchQueries(artist, title)[1],
                 bestMatch |-> Null, bestYearDiff |-> Infinity,
                 answered |-> {}, done |-> FALSE, result |-> Null]
    /\ SearchFrame

\* the pending plexRequest settles: the tracks of the answer are checked, then
\* the next query is sent or, after the last one, the function returns
plexRequestSettled ==
    /\ IF sp = Null THEN FALSE ELSE ~sp.done
    /\ \E response \in Responses :
          LET heard == [sp EXCEPT !.answered = @ \cup Range(response.tracks)]
              st    == IF response.kind = "tracks"
                       THEN CheckTracks(heard, response.tracks, 1)
                       ELSE heard
          IN  sp' = IF st.done THEN st
                    ELSE IF st.q < 3
                    THEN [st EXCEPT !.q = @ + 1,
                                    !.query = searchQueries(st.artist, st.title)[st.q + 1]]
                    ELSE [st EXCEPT !.done = TRUE,
                                    !.result = searchPlexReturn(st.bestMatch, st.bestYearDiff)]
    /\ SearchFrame

SearchNext == searchPlex \/ plexRequestSettled

SearchSpec == SearchInit /\ [][SearchNext]_vars

----------------------------------------------------------------------------
(* main of tools/generate-plex-mapping.js.  config is the result of        *)
(* parseArgs; the CSV file is given by its rows, read by column name.  A   *)
(* mapping object is the set of its entries [key, value].  main runs up to *)
(* an await in one step.                                                   *)

\* data rows of the CSV file
MaxRows == 2

\* what searchPlex can return for a row: null, or the match built from a
\* track of the library with matching title and artist and yearDiff 0
SearchResults(row) ==
    {Null} \cup
    {MatchOf(track) : track \in
        {t \in Library :
            /\ titleMatch(t, cleanTitle(row.title))
            /\ artistMatch(t, cleanArtist(row.artist))
            /\ yearDiff(t, parseInt(row.year)) = 0}}

\* mapping[cardId] = value
MappingSet(mapping, cardId, value) ==
    {e \in mapping : e.key # cardId} \cup {[key |-> cardId, value |-> value]}
\* Object.keys(mapping)
MappingCards(mapping) == {e.key : e \in mapping}
\* mapping[cardId]
MappingValue(mapping, cardId) ==
    IF cardId \in MappingCards(mapping)
    THEN (CHOOSE e \in mapping : e.key = cardId).value
    ELSE Undefined

\* a loop body that records only the cards it found
StoreResult_foundOnly(mapping, cardId, plexTrack) ==
    IF plexTrack # Null THEN MappingSet(mapping, cardId, plexTrack) ELSE mapping

\* the assignment in the two branches of `if (plexTrack)`
StoreResult(mapping, cardId, plexTrack) ==
    IF plexTrack # Null THEN MappingSet(mapping, cardId, plexTrack)
    ELSE MappingSet(mapping, cardId, Null)

GenCards == {<<"1">>, <<"2">>}
GenSongs ==
    { [artist |-> <<"Queen", " ", "Feat.", " ", "Bowie">>,
       title |-> <<"Radio", " ", "Ga", " ", "Ga">>, year |-> <<"1">>],
      [artist |-> <<"Queen">>,
       title |-> <<"Radio", " ", "(", "Live", ")", " ", "[", "Edit", "]">>,
       year |-> <<"2">>] }
GenRows ==
    {[cardId |-> c, artist |-> s.artist, title |-> s.title, year |-> s.year, url |-> <<>>] :
        c \in GenCards, s \in GenSongs}
CsvFiles ==
    {[exists |-> TRUE, columns |-> TRUE, rows |-> rows] :
        rows \in {<<>>} \cup SeqsUpTo(GenRows, MaxRows)}

\* the mapping file of an earlier run
ExistingMappings ==
    { {},
      {[key |-> <<"1">>, value |-> MatchOf(CHOOSE t \in Library : t.ratingKey = <<"2">>)],
       [key |-> <<"2">>, value |-> Null]} }

ValidConfig(limit, output) ==
    [server |-> <<"http://plex", "/">>, token |-> <<"token">>, csv |-> <<"hitster-de.csv">>,
     output |-> output, help |-> FALSE, limit |-> limit]

\* the runs: valid arguments over every CSV file, and each way the start fails
GenInputs ==
    {[config |-> ValidConfig(limit, output), csvFile |-> csv, existing |-> ex] :
        limit \in 0..MaxRows, output \in {<<>>, <<"plex-mapping-de.json">>},
        csv \in CsvFiles, ex \in ExistingMappings}
    \cup
    {[config |-> c, csvFile |-> [exists |-> TRUE, columns |-> TRUE, rows |-> <<>>],
      existing |-> {}] :
        c \in {[ValidConfig(0, <<>>) EXCEPT !.help = TRUE],
               [ValidConfig(0, <<>>) EXCEPT !.help = TRUE, !.server = <<>>],
               [ValidConfig(0, <<>>) EXCEPT !.server = <<>>],
               [ValidConfig(0, <<>>) EXCEPT !.token = <<>>],
               [ValidConfig(0, <<>>) EXCEPT !.csv = <<>>]}}
    \cup
    {[config |-> ValidConfig(0, <<>>), csvFile |-> f, existing |-> {}] :
        f \in {[exists |-> FALSE, columns |-> TRUE, rows |-> <<>>],
               [exists |-> TRUE, columns |-> FALSE, rows |-> <<>>]}}

NoOutFile == [written |-> FALSE, path |-> <<>>, mapping |-> {}]

GenInit ==
    /\ \E in \in GenInputs :
          gen = [pc |-> "start", config |-> in.config, csvFile |-> in.csvFile,
                 existing |-> in.existing, exitCode |-> NaN,
                 songs |-> <<>>, i |-> 0, mapping |-> {}, found |-> 0, notFound |-> 0,
                 requests |-> <<>>, searched |-> <<>>, results |-> <<>>,
                 outFile |-> NoOutFile, missingSongs |-> <<>>, missingCsv |-> FALSE]
    /\ sp = Null
    /\ IdleApp /\ IdlePlayers /\ IdleLookup /\ IdleEntry

GenFrame == UNCHANGED <<sp, appVars, playerVars, lookupVars, entryVars>>

Exit(g, code) == [g EXCEPT !.pc = "exit", !.exitCode = code]

\* a validation that only looks at --server
ArgsMissing_serverOnly(config) == config.server = <<>>

\* !config.server || !config.token || !config.csv
ArgsMissing(config) ==
    config.server = <<>> \/ config.token = <<>> \/ config.csv = <<>>

\* main up to `await plexRequest(`${config.server}/`, ...)`
mainStart ==
    /\ gen # Null
    /\ gen.pc = "start"
    /\ gen' = IF gen.config.help THEN Exit(gen, 0)
              ELSE IF ArgsMissing(gen.config) THEN Exit(gen, 1)
              ELSE IF ~gen.csvFile.exists THEN Exit(gen, 1)
              ELSE IF ~gen.csvFile.columns THEN Exit(gen, 1)
              ELSE [gen EXCEPT !.pc = "connect",
                               !.config.server = StripTrailingSlash(@),
                               !.requests = Append(@, "/")]
    /\ GenFrame

\* the connection test settles; on success main awaits the search test
mainConnected ==
    /\ gen # Null
    /\ gen.pc = "connect"
    /\ \E ok \in BOOLEAN :
          gen' = IF ok THEN [gen EXCEPT !.pc = "searchTest",
                                        !.requests = Append(@, "/search?query=test")]
                 ELSE Exit(gen, 1)
    /\ GenFrame

\* a generator that ignores --limit
ApplyLimit_none(songs, limit) == songs

\* if (config.limit > 0) songs = songs.slice(0, config.limit)
ApplyLimit(songs, limit) ==
    IF limit > 0 /\ limit < Len(songs) THEN SubSeq(songs, 1, limit) ELSE songs

\* the rows whose card has the entry null
MissingSongs(songs, mapping) ==
    SelectSeq(songs, LAMBDA row : MappingValue(mapping, row.cardId) = Null)

\* after the loop: the mapping file and the CSV files of the missing songs
Finish(g) ==
    [g EXCEPT !.pc = "done",
              !.outFile = [written |-> TRUE,
                           path |-> IF g.config.output # <<>> THEN g.config.output
                                    ELSE <<"plex-mapping-", "de", "_", "timestamp", ".json">>,
                           mapping |-> g.mapping],
              !.missingSongs = MissingSongs(g.songs, g.mapping),
              !.missingCsv = MissingSongs(g.songs, g.mapping) # <<>>]

\* the loop from `for (... i < songs.length ...)` to the next await
Iterate(g) ==
    IF g.i < Len(g.songs)
    THEN [g EXCEPT !.pc = "search", !.i = @ + 1,
                   !.requests = Append(@, "/search?query="),
                   !.searched = Append(@, g.songs[g.i + 1])]
    ELSE Finish(g)

\* the search test settles (a failure only prints a warning); main goes on
\* to the first searchPlex, or to the end when there are no songs
mainSearchTested ==
    /\ gen # Null
    /\ gen.pc = "searchTest"
    /\ gen' = Iterate([gen EXCEPT
                  !.songs = ApplyLimit(gen.csvFile.rows, gen.config.limit),
                  !.mapping = {}, !.found = 0, !.notFound = 0, !.i = 0])
    /\ GenFrame

\* searchPlex returns for row i; main stores the result and awaits the delay
songSearched ==
    /\ gen # Null
    /\ gen.pc = "search"
    /\ \E plexTrack \in SearchResults(gen.songs[gen.i]) :
          gen' = [gen EXCEPT
                    !.pc = "delay",
                    !.mapping = StoreResult(@, gen.songs[gen.i].cardId, plexTrack),
                    !.found = IF plexTrack # Null THEN @ + 1 ELSE @,
                    !.notFound = IF plexTrack # Null THEN @ ELSE @ + 1,
                    !.results = Append(@, plexTrack)]
    /\ GenFrame

\* the 100 ms delay ends; the next song, or the end of main
delayElapsed ==
    /\ gen # Null
    /\ gen.pc = "delay"
    /\ gen' = Iterate(gen)
    /\ GenFrame

GenNext == mainStart \/ mainConnected \/ mainSearchTested \/ songSearched \/ delayElapsed

GenSpec == GenInit /\ [][GenNext]_vars

----------------------------------------------------------------------------
(* Claims *)

\* The method a playback command calls on the player
CommandMethod(cmd) ==
    CASE cmd = "play"  -> "playVideo"
      [] cmd = "pause" -> "pauseVideo"
      [] OTHER -> cmd

\* C6: a playback command (play, pause, seekTo, setVolume, unMute,
\* getCurrentTime, getDuration, getVideoData) calls its method on the player
\* that activePlayerType selects, once when that player exists, and makes no
\* call on the other player.
C6_CommandsGoToActivePlayer ==
    calls.op \in Commands =>
        /\ pm.activePlayerType = calls.active
        /\ \A i \in DOMAIN calls.made :
              /\ calls.made[i].receiver = calls.active
              /\ calls.made[i].method = CommandMethod(calls.op)
        /\ LET exists == IF calls.active = "plex" THEN pm.plexPlayer ELSE pm.youtubePlayer
           IN  Len(calls.made) = IF exists THEN 1 ELSE 0

\* C6 witness: seekTo went to the Plex player while a YouTube player exists
C6_Witness ==
    /\ calls.op = "seekTo" /\ calls.active = "plex" /\ ~calls.threw
    /\ pm.youtubePlayer /\ youtube.ready
    /\ Len(calls.made) = 1 /\ calls.made[1].receiver = "plex"

\* the stream URL the Plex player builds for a part key under the loaded config
StreamOf(partKey) ==
    StripTrailingSlash(plexConfig.serverUrl) \o partKey \o <<"?X-Plex-Token=">>
        \o plexConfig.token

\* the last handleScannedLink left its track cued on the Plex player
CuedLastScan ==
    /\ pm.plexPlayer
    /\ plex.currentTrack # Null
    /\ plex.currentTrack.ratingKey = lastScan.resolves.ratingKey
    /\ lastScan.resolves.partKey # <<>> => plex.src = StreamOf(lastScan.resolves.partKey)
    /\ lastScan.resolves.partKey = <<>> => plex.fetching \/ plex.src # <<>>

\* C1: when a scanned card resolves to a Plex track (server URL and token
\* configured), handleScannedLink has cued that track on the Plex player: the
\* audio source is the stream of that track.  (The claim goes on: the CUED
\* state change then reaches the UI handler, which enables the play button.)
C1_ResolvedScanCuesTrack ==
    (lastScan # NoScan /\ lastScan.resolves # Null) => CuedLastScan

\* the title field reads "Card #X not available", X the card's number
ShowsNotAvailable(text) ==
    ui.songTitle = <<"Card #">> \o NumberToString(parseInt(ResolveHitsterData(text).id))
                       \o <<" not available">>

\* C3: every scanned card that is not matched to a Plex track ends with
\* "Card #X not available" in the title field, the play button disabled and
\* no track cued.  Stated for the cards that carry a number X, the Hitster
\* URLs that parse (a "plex:<digits>" code that is not matched gets no
\* message under any circumstances).
C3_UnmatchedCardNotAvailable ==
    (/\ lastScan # NoScan
     /\ ResolveHitsterData(lastScan.text) # Null
     /\ lastScan.resolves = Null) =>
        /\ ShowsNotAvailable(lastScan.text)
        /\ ui.startstopDisabled
        /\ \A i \in DOMAIN calls.made : calls.made[i].method # "cueTrack"

\* the tracks of the loaded mappings
LoadedTracks(cache) ==
    UNION {{cache[i].mapping[j].value : j \in DOMAIN cache[i].mapping} : i \in DOMAIN cache}
        \ {Null}

\* C4, first sentence: lookupPlexTrackByRatingKey(key) returns a track of a
\* loaded mapping whose ratingKey is key or whose alternativeKeys contain key,
\* and null exactly when no loaded mapping has such a track.
RatingKeyLookupRight(cache, key) ==
    LET result == lookupPlexTrackByRatingKey(cache, key)
        Fits(t) == t.ratingKey = key \/ key \in t.alternativeKeys
    IN  /\ result = Null <=> ~\E t \in LoadedTracks(cache) : Fits(t)
        /\ result # Null => result.track \in LoadedTracks(cache) /\ Fits(result.track)

\* C4: lookupPlexTrackByRatingKey is as described for every key, and a scanned
\* "plex:<digits>" code with server URL and token configured cues the track
\* the lookup returned.
C4_RatingKeyScanCuesTrack ==
    /\ \A key \in ScanIds : RatingKeyLookupRight(plexMappingCache, key)
    /\ (lastScan # NoScan /\ isPlexRatingKey(lastScan.text) /\ lastScan.resolves # Null)
           => CuedLastScan

\* requests for a mapping file among the requests made
MappingRequests ==
    {i \in DOMAIN requested :
        requested[i] \notin {<<"/plex-config.json">>, <<"/plex-manifest.json">>}}

\* C5: a mapping file is requested only for a mapping id listed in the games
\* of the manifest that was served; with the manifest missing, not OK or
\* failed (or not yet loaded) no mapping file is requested and the mapping
\* cache has no entry.
C5_OnlyManifestMappingsLoaded ==
    /\ \A i \in MappingRequests :
          \E k \in DOMAIN manifestResult.games :
              requested[i] = <<"/plex-mapping-">> \o manifestResult.games[k] \o <<".json">>
    /\ \A i \in DOMAIN plexMappingCache :
          \E k \in DOMAIN manifestResult.games :
              plexMappingCache[i].lang = manifestResult.games[k]
    /\ manifestResult.outcome # "ok" => MappingRequests = {} /\ plexMappingCache = <<>>

\* C5 witness: a manifest of two games was served and both files were
\* requested; one of them was loaded
C5_Witness ==
    /\ loadPc = "done" /\ manifestResult.outcome = "ok"
    /\ Len(manifestResult.games) = 2
    /\ Cardinality(MappingRequests) = 2
    /\ Len(plexMappingCache) = 1

\* a digit string without its leading zeros ("000" is "0")
RECURSIVE StripLeadingZeros(_)
StripLeadingZeros(s) ==
    IF Len(s) > 1 /\ Head(s) = "0" THEN StripLeadingZeros(Tail(s)) ELSE s

\* the entries of the mapping loaded for lang that are stored under key
EntriesUnder(cache, lang, key) ==
    {e \in UNION {Range(cache[i].mapping) : i \in {j \in DOMAIN cache : cache[j].lang = lang}} :
        e.key = key}

\* C2: for a card id of decimal digits lookupPlexTrack returns the entry
\* stored under the id without its leading zeros (null when there is none),
\* and every id that differs from it in leading zeros only resolves the same.
C2_LookupIgnoresLeadingZeros ==
    (lkOut # Null /\ lkIn.fn = "lookupPlexTrack") =>
        LET stored == EntriesUnder(lkIn.cache, lkIn.lang, StripLeadingZeros(lkIn.cardId))
        IN  /\ stored = {} => lkOut.value = Null
            /\ \A e \in stored : lkOut.value = e.value
            /\ \A other \in DigitStrings :
                  StripLeadingZeros(other) = StripLeadingZeros(lkIn.cardId) =>
                      lookupPlexTrack(lkIn.cache, other, lkIn.lang) = lkOut.value

\* C2 witness: "001" found the track stored under "1", in a mapping that
\* holds another track under "01"
C2_Witness ==
    /\ lkOut # Null /\ lkIn.fn = "lookupPlexTrack"
    /\ lkIn.cardId = <<"0", "0", "1">>
    /\ lkOut.value = TrackA
    /\ EntriesUnder(lkIn.cache, lkIn.lang, <<"0", "1">>) = {[key |-> <<"0", "1">>, value |-> TrackB]}

\* C4, first sentence, for the lookup as a function
C4_LookupPart ==
    (lkOut # Null /\ lkIn.fn = "lookupPlexTrackByRatingKey") =>
        /\ RatingKeyLookupRight(lkIn.cache, lkIn.ratingKey)
        /\ lkOut.value = lookupPlexTrackByRatingKey(lkIn.cache, lkIn.ratingKey)

\* C7: at container start a file that already exists in /plex-data/ is left
\* unchanged, and a file that is missing there is the copy of its default
\* afterwards (still missing when there is no default).
C7_OnlyMissingFilesCopied ==
    [][entryPc' # entryPc =>
          \A f \in Files :
              plexData'[f] = IF plexData[f] = "absent" THEN plexDefaults[f]
                             ELSE plexData[f]]_vars

\* a track of an answer that the card's cleaned title and artist match and
\* whose year is the card's year
ExactMatch(track, s) ==
    /\ titleMatch(track, s.cleanTitle)
    /\ artistMatch(track, s.cleanArtist)
    /\ s.targetYear # NaN
    /\ trackYear(track) # Undefined
    /\ trackYear(track).n = s.targetYear

\* C8: when searchPlex has returned, a non-null result is built from a track
\* of one of the answers whose title and artist match the cleaned card title
\* and artist (case-insensitive containment, either way) and whose year equals
\* the card's year; when no answer held such a track, and so for a card
\* without a parseable year, the result is null.
C8_OnlyExactYearMatches ==
    (sp # Null /\ sp.done) =>
        /\ sp.result # Null =>
              \E track \in sp.answered :
                  ExactMatch(track, sp) /\ sp.result = MatchOf(track)
        /\ (\A track \in sp.answered : ~ExactMatch(track, sp)) => sp.result = Null
        /\ sp.targetYear = NaN => sp.result = Null

\* a card "Queen Feat. Bowie" / "Radio (Live) [Edit]" is matched to a track of
\* its year after an answer also held a matching track of another year
C8_Witness ==
    /\ sp # Null /\ sp.done /\ sp.result # Null
    /\ sp.artist # sp.cleanArtist /\ sp.title # sp.cleanTitle
    /\ \E track \in sp.answered :
          /\ titleMatch(track, sp.cleanTitle) /\ artistMatch(track, sp.cleanArtist)
          /\ ~ExactMatch(track, sp)

\* C9: when a run of the generator has ended, no card of the CSV that the
\* existing mapping file matched to a track was searched in Plex, and the
\* written mapping holds the existing entry of every such card.
C9_MatchedCardsNotSearchedAgain ==
    (gen # Null /\ gen.pc = "done") =>
        \A k \in DOMAIN gen.songs :
            \A e \in gen.existing :
                (e.key = gen.songs[k].cardId /\ e.value # Null) =>
                    /\ e.key \notin {row.cardId : row \in Range(gen.searched)}
                    /\ e \in gen.outFile.mapping

\* the last processed row with the Card# of row k
LastRowOf(songs, k) ==
    CHOOSE j \in DOMAIN songs :
        /\ songs[j].cardId = songs[k].cardId
        /\ \A l \in DOMAIN songs : songs[l].cardId = songs[k].cardId => l <= j

\* C10: when the generator has ended, the written mapping has exactly one
\* entry for every Card# of a processed row and no other entry; the entry is
\* what searchPlex returned for the (last) row of that Card#, the matched
\* track or null; found counts the rows with a match, notFound the others, and
\* found + notFound is the number of processed rows.
C10_EntryForEveryProcessedCard ==
    (gen # Null /\ gen.pc = "done") =>
        /\ gen.outFile.written
        /\ MappingCards(gen.outFile.mapping) = {gen.songs[k].cardId : k \in DOMAIN gen.songs}
        /\ Cardinality(gen.outFile.mapping) = Cardinality(MappingCards(gen.outFile.mapping))
        /\ Len(gen.results) = Len(gen.songs)
        /\ \A k \in DOMAIN gen.songs :
              [key |-> gen.songs[k].cardId,
               value |-> gen.results[LastRowOf(gen.songs, k)]] \in gen.outFile.mapping
        /\ gen.found = Cardinality({k \in DOMAIN gen.results : gen.results[k] # Null})
        /\ gen.notFound = Cardinality({k \in DOMAIN gen.results : gen.results[k] = Null})
        /\ gen.found + gen.notFound = Len(gen.songs)

\* a run over two cards ended with one matched and one not
C10_Witness ==
    /\ gen # Null /\ gen.pc = "done"
    /\ gen.found = 1 /\ gen.notFound = 1
    /\ Cardinality(gen.outFile.mapping) = 2
    /\ \E e \in gen.outFile.mapping : e.value = Null
    /\ \E e \in gen.outFile.mapping : e.value # Null

\* the processed rows for which searchPlex returned null, in CSV order
RowsNotFound(g) ==
    LET RECURSIVE Pick(_)
        Pick(k) == IF k > Len(g.songs) THEN <<>>
                   ELSE (IF g.results[k] = Null THEN <<g.songs[k]>> ELSE <<>>) \o Pick(k + 1)
    IN  Pick(1)

\* C11: when the generator has ended, the missing-songs CSV files hold one row
\* for each processed song that was not found (as many as notFound counts) and
\* no row for a song that was found, repeated Card#s included; the files are
\* written when there is such a song.
C11_MissingCsvListsNotFoundSongs ==
    (gen # Null /\ gen.pc = "done") =>
        /\ gen.missingSongs = RowsNotFound(gen)
        /\ Len(gen.missingSongs) = gen.notFound
        /\ gen.missingCsv = (gen.notFound > 0)

\* the number of rows a run with this limit has to process
RowsToProcess(g) ==
    IF g.config.limit > 0 /\ g.config.limit < Len(g.csvFile.rows)
    THEN g.config.limit ELSE Len(g.csvFile.rows)

\* C12: the rows searchPlex was called for are at every moment a prefix, in
\* CSV order, of the first min(N, number of rows) rows when --limit N > 0 and
\* of all rows when the limit is 0; when the generator has ended they are
\* exactly those rows, each searched once.
C12_LimitBoundsTheSearches ==
    gen # Null =>
        /\ Len(gen.searched) <= RowsToProcess(gen)
        /\ gen.searched = SubSeq(gen.csvFile.rows, 1, Len(gen.searched))
        /\ gen.pc = "done" => Len(gen.searched) = RowsToProcess(gen)

\* a run with --limit 1 over a CSV of two rows ended after one search
C12_Witness ==
    /\ gen # Null /\ gen.pc = "done"
    /\ gen.config.limit = 1 /\ Len(gen.csvFile.rows) = 2
    /\ gen.searched = <<gen.csvFile.rows[1]>>

\* the run cannot start: an argument, the CSV file or a column is missing
BadStart(g) ==
    \/ g.config.server = <<>> \/ g.config.token = <<>> \/ g.config.csv = <<>>
    \/ ~g.csvFile.exists \/ ~g.csvFile.columns

AskedToPause(receiver) ==
    \E i \in DOMAIN calls.made :
        calls.made[i].receiver = receiver /\ calls.made[i].method = "pauseVideo"

\* a timeout of this owner is pending
TimerPending(owner) == \E t \in timeouts.pending : t.owner = owner

\* C14: after setActivePlayerType(type) with a type other than the active
\* one, every existing player was paused, no auto-stop timer of the manager
\* is pending and the type is the new one; with the active type itself no
\* player received a call and the timer field is as it was; and the call
\* returns with isPlexActive() true exactly when type is 'plex'.
C14_SwitchStopsPlayback ==
    calls.op = "setActivePlayerType" =>
        /\ ~calls.threw
        /\ (pm.activePlayerType = "plex") <=> (calls.arg = "plex")
        /\ IF calls.arg # calls.active
           THEN /\ pm.youtubePlayer => AskedToPause("youtube")
                /\ pm.plexPlayer => AskedToPause("plex") /\ plex.paused
                /\ \A i \in DOMAIN calls.made : calls.made[i].receiver = "youtube"
                                                   \/ ~calls.made[i].threw
                /\ pm.playbackTimer = 0 /\ ~TimerPending("pm")
           ELSE /\ calls.made = <<>>
                /\ pm.playbackTimer = calls.timerWas

\* C15: after PlayerManager.stop() the call has returned, the YouTube player
\* (ready or not) and the Plex player, as far as they exist, were asked to
\* pause, the Plex player with a method it has, and no auto-stop timer of the
\* manager is pending.
C15_StopPausesEveryPlayer ==
    calls.op = "stop" =>
        /\ ~calls.threw
        /\ pm.youtubePlayer => AskedToPause("youtube")
        /\ pm.plexPlayer =>
              \E i \in DOMAIN calls.made :
                  calls.made[i].receiver = "plex" /\ ~calls.made[i].threw
        /\ pm.playbackTimer = 0 /\ ~TimerPending("pm")

\* the timer field of an owner
TimerField(owner) == IF owner = "pm" THEN pm.playbackTimer ELSE plex.playbackTimer

\* C16: at any time each owner (PlayerManager, PlexPlayer) has at most one
\* pending auto-stop timeout, the one its playbackTimer field names; and no
\* onStop ran for a timeout that was cancelled, nor twice for one timeout.
C16_OneTimerPerOwner ==
    /\ \A owner \in {"pm", "plex"} :
          /\ Cardinality({t \in timeouts.pending : t.owner = owner}) <= 1
          /\ \A t \in timeouts.pending : t.owner = owner => t.id = TimerField(owner)
    /\ \A i \in DOMAIN timeouts.onStops : timeouts.onStops[i] \notin timeouts.cancelled
    /\ \A i, j \in DOMAIN timeouts.onStops :
          timeouts.onStops[i] = timeouts.onStops[j] => i = j

\* playAtRandomStartTime replaced a pending timer: the old timeout is
\* cancelled, the new one is pending
C16_Witness ==
    /\ calls.op = "playAtRandomStartTime" /\ ~calls.threw
    /\ calls.timerWas # 0 /\ calls.timerWas \in timeouts.cancelled
    /\ pm.playbackTimer # calls.timerWas
    /\ \E t \in timeouts.pending : t.owner = "pm" /\ t.id = pm.playbackTimer

\* playAtRandomStartTime returned with its timeout pending
SnippetStarted ==
    /\ calls.op = "playAtRandomStartTime" /\ ~calls.threw
    /\ pm.playbackTimer = timeouts.last
    /\ \E t \in timeouts.pending : t.owner = "pm" /\ t.id = timeouts.last

\* the timeout of the last snippet ran out: the active player was paused,
\* onStop ran once, no timer of the manager is left
SnippetStopped ==
    /\ calls.op = "playbackTimer" /\ ~calls.threw
    /\ calls.made = <<[receiver |-> calls.active, method |-> "pauseVideo", threw |-> FALSE]>>
    /\ calls.active = "youtube" => ~youtube.playing
    /\ calls.active = "plex" => plex.paused
    /\ Cardinality({i \in DOMAIN timeouts.onStops : timeouts.onStops[i] = timeouts.last}) = 1
    /\ pm.playbackTimer = 0 /\ ~TimerPending("pm")

\* C17: once playAtRandomStartTime has started a snippet (it returned with
\* its timer set) and no other call is made on the manager, the timer
\* eventually fires: the active player is paused, onStop has run exactly
\* once for this snippet, and no auto-stop timer is pending.
C17_SnippetStopsItself == SnippetStarted ~> SnippetStopped

\* a snippet on the YouTube player was stopped by its timer
C17_Witness ==
    /\ SnippetStopped
    /\ pm.youtubePlayer /\ youtube.ready /\ calls.active = "youtube"

\* C18: random playback seeks to a start time of at least max(custom start
\* time, 10 % of the track duration), and the stop it schedules (the start
\* plus the timer delay) is at most 90 % of the track duration.
C18_SnippetInsideTheTrack ==
    (rp # Null /\ rp.done) =>
        /\ rp.seekTo >= minStartTime(rp.videoDuration, rp.currentStartTime)
        /\ rp.seekTo * 1000 + rp.timerMs * Second <= maxEndTime(rp.videoDuration) * 1000

\* the audio element of the Plex player is playing
AudioPlaying == pm.plexPlayer /\ ~plex.paused

====
